---------------------------- MODULE Spec2Model ----------------------------
(***************************************************************************)
(* RelbarGANInstructor (instructor/real_data/relbargan_instructor.py):     *)
(* the three-phase training run _run, with pretrain_generator,             *)
(* pretrain_discriminator, adv_train_generator and                         *)
(* adv_train_discriminator, as a sequential state machine.  pc is the      *)
(* position in the code.  Parameters are version counters (one tick per    *)
(* optimizer step); temperature and eta are integers in units of half the  *)
(* adversarial learning rate, so that one Adam step of a gradient of       *)
(* constant sign moves them by LrStep.                                     *)
(* GumbelGAN_G.sample (models/GumbelGAN_G.py) and one draw of the Relaxed   *)
(* Sampler are modelled beside it, each with variables of its own          *)
(* (gsample, relaxed) and a specification of its own.                      *)
(***************************************************************************)
EXTENDS Integers, Sequences, FiniteSets, TLC

\* ---------------------------------------------------------------- bounds
\* largest budget (epochs, steps) of the whole-run specification Spec
FullMax == 1
\* largest budget of the pretraining specification SpecPre
PreMax == 2
\* largest budget of the adversarial specification SpecAdv
AdvMax == 2
\* largest number of generator steps of the gradient specification SpecGrad
GradMax == 2
\* largest logging interval (cfg.pre_log_step, cfg.adv_log_step)
MaxLogStep == 2
\* largest num_samples and batch_size of a call of GumbelGAN_G.sample
MaxSamples == 3
MaxBatch == 2
\* largest weight of a category and largest noise level of a Relaxed Sampler draw
MaxTheta == 2
MaxNoise == 3
\* the loop variable of a for loop that has not run yet (Python: unbound)
Unbound == -1

\* one Adam step, in units of half the learning rate gen_adv_lr
LrStep == 2

\* gradients RebarGradientEstimator.estimate_gradient can return for a scalar: Adam's
\* step depends on their sign alone
GradValues == {0 - 1, 1}

VARIABLES
    pc,            \* position in _run and the functions it calls
    error,         \* "none", or the exception that ended the run
    cfg,           \* the config module: a record, fixed during the run
    sig,           \* self.sig: [pre_sig, adv_sig], as of the last update()
    epochs,        \* pretrain_generator: the argument epochs
    epoch,         \* pretrain_generator: the loop variable epoch
    dpre_step,     \* pretrain_discriminator: the loop variable step
    dpre_epoch,    \* pretrain_discriminator: the loop variable epoch
    d_loss,        \* pretrain_discriminator: whether d_loss, train_acc are bound
    adv_epoch,     \* _run: the loop variable adv_epoch
    g_i,           \* adv_train_generator: the loop variable step
    d_i,           \* adv_train_discriminator: the loop variable step
    genParams,     \* self.gen.parameters(): version
    disParams,     \* self.dis.parameters(): version
    temperature,   \* self.gen.temperature
    eta,           \* self.gen.eta
    gradSlot,      \* [temperature, eta, gen]: the .grad slots gen_adv_opt reads
    disGrad,       \* self.dis .grad: [src: what was accumulated, clipped]
    old,           \* adv_train_generator: <<old_temperature, old_eta>>
    est,           \* adv_train_generator: locals of one step
    dis_data,      \* self.dis_data: [round, gen]: the negatives it holds
    files,         \* what torch.save and _save have written: <<label, index>>
    h,             \* history: counts of the operations performed
    gsample,       \* GumbelGAN_G.sample: the locals of a call
    relaxed        \* the Relaxed Sampler: one draw

loopVars == <<epochs, epoch, dpre_step, dpre_epoch, d_loss, adv_epoch, g_i, d_i>>
paramVars == <<genParams, disParams, temperature, eta>>
gradVars == <<gradSlot, disGrad, old, est>>
runVars == <<pc, error, cfg, sig, loopVars, paramVars, gradVars, dis_data, files, h>>
fnVars == <<gsample, relaxed>>
vars == <<runVars, fnVars>>

\* ------------------------------------------------------------ the config
\* the loss families get_losses implements; any other cfg.loss_type makes it raise
LossTypes == {"standard", "rsgan"}

CfgSpace(skipG, skipD, save, test, mle, ds, de, adv, g, d, logs, learn, temps, loss) ==
    [gen_pretrain: skipG, dis_pretrain: skipD, if_save: save, if_test: test,
     MLE_train_epoch: mle, d_step: ds, d_epoch: de,
     ADV_train_epoch: adv, ADV_g_step: g, ADV_d_step: d,
     pre_log_step: logs, adv_log_step: logs,
     learn_temperature: learn, learn_eta: learn,
     temperature: temps, eta: temps, loss_type: loss]

\* the whole run, every budget from 0 to FullMax
FullCfgs ==
    CfgSpace(BOOLEAN, BOOLEAN, BOOLEAN, BOOLEAN, 0..FullMax, 0..FullMax, 0..FullMax,
             0..FullMax, 0..FullMax, 0..FullMax, {1}, {FALSE}, {3}, {"standard"})

\* the two pretraining phases, no adversarial round
PreCfgs ==
    CfgSpace(BOOLEAN, BOOLEAN, BOOLEAN, BOOLEAN, 0..PreMax, 0..PreMax, 0..PreMax,
             {0}, {0}, {0}, 1..MaxLogStep, {FALSE}, {3}, {"standard"})

\* the adversarial phase, entered with both pretrained flags set
AdvCfgs ==
    CfgSpace({TRUE}, {TRUE}, BOOLEAN, BOOLEAN, {0}, {0}, {0},
             0..AdvMax, 0..AdvMax, 0..AdvMax, 1..MaxLogStep, {FALSE}, {3}, {"standard"})

\* discriminator pretraining and one adversarial round, with learnable temperature
\* and eta
GradCfgs ==
    CfgSpace({TRUE}, BOOLEAN, BOOLEAN, {FALSE}, {0}, {1}, {1},
             {1}, 0..GradMax, 0..1, {1}, BOOLEAN, {1, 3}, {"standard"})

\* the whole run, with a cfg.loss_type that get_losses implements or not
LossCfgs ==
    {[c EXCEPT !.loss_type = l] : c \in FullCfgs, l \in LossTypes \cup {"unknown"}}

\* the whole run with every phase trained, under every logging interval
SaveCfgs ==
    CfgSpace(BOOLEAN, BOOLEAN, BOOLEAN, BOOLEAN, {1}, {1}, {1},
             0..AdvMax, 0..1, 0..1, 1..MaxLogStep, {FALSE}, {3}, {"standard"})

\* a faulty variant: cfg.if_test is not looked at
SaveEnabled_NoTest == cfg.if_save

\* a config under which the instructor does nothing: the calls of the samplers alone
IdleCfgs ==
    CfgSpace({TRUE}, {TRUE}, {FALSE}, {FALSE}, {0}, {0}, {0},
             {0}, {0}, {0}, {1}, {FALSE}, {3}, {"standard"})

\* cfg.if_save and not cfg.if_test
SaveEnabled == cfg.if_save /\ ~cfg.if_test


\* ------------------------------------------------------------ the phases
\* a faulty variant: the two pretraining sections in the other order
RunSections_Swapped == <<"dis_check", "gen_check", "adv_start">>

\* _run's three sections, in the order of the code, by their first position
RunSections == <<"gen_check", "dis_check", "adv_start">>

\* the position after the section that starts at pos; after the last, the return
NextSection(pos) ==
    LET i == CHOOSE k \in 1..Len(RunSections) : RunSections[k] = pos
    IN  IF i < Len(RunSections) THEN RunSections[i + 1] ELSE "done"

\* the phase of the state machine a position of the code belongs to
PhaseOf(p) ==
    CASE p \in {"gen_check", "mle_loop", "mle_poll", "mle_train", "mle_test",
                "mle_final", "gen_save", "gen_saved"} -> "PRETRAIN_G"
      [] p \in {"dis_check", "dpre_loop", "dpre_sample", "dpre_epoch", "dpre_log",
                "dis_save", "dis_saved"} -> "PRETRAIN_D"
      [] p = "done" -> "TERMINATED"
      [] OTHER -> "ADV"

Phase == PhaseOf(pc)

\* ------------------------------------------------------------ collaborators
\* optim.Adam(...): the parameters each optimizer owns
OptParams(opt) ==
    CASE opt = "gen_opt" -> {"gen"}
      [] opt = "gen_adv_opt" -> {"gen", "temperature", "eta"}
      [] opt = "dis_opt" -> {"dis"}

\* the sign of a gradient
Sign(g) == IF g > 0 THEN 1 ELSE IF g < 0 THEN 0 - 1 ELSE 0

\* Adam's update of a scalar whose .grad slot holds g: one learning-rate step
\* against the sign of g (exactly so while the gradients keep their sign, up to
\* Adam's eps), and none while the gradient has always been zero
AdamScalar(x, g) == x - LrStep * Sign(g)

\* opt.step(): a new version of every parameter tensor the optimizer owns, and
\* Adam's update of the scalars it owns
StepVersion(opt, name, v) == IF name \in OptParams(opt) THEN v + 1 ELSE v
StepScalar(opt, name, x, g) == IF name \in OptParams(opt) THEN AdamScalar(x, g) ELSE x

\* self.sig.update(): both flags are read again from the outside
SigValues == [pre_sig: BOOLEAN, adv_sig: BOOLEAN]

\* adv_train_generator's locals of one step, outside the function
NoLocals == [theta |-> Unbound, args |-> <<0, 0>>, out |-> <<0, 0>>, grads |-> <<0, 0>>]

\* ------------------------------------------------------------ history
ParamSnap == [gen |-> genParams, dis |-> disParams, temperature |-> temperature,
              eta |-> eta, files |-> files]

H0 == [mlePolls |-> 0, mleTrain |-> 0, mleStop |-> FALSE,
       dpreResets |-> 0, dpreTrain |-> 0, roundTrain |-> 0,
       advPolls |-> 0, advG |-> 0, advD |-> 0, advStop |-> FALSE,
       roundPolls |-> 0, roundG |-> 0, roundD |-> 0,
       metrics |-> 0, ops |-> << >>,
       snap |-> [gen |-> 0, dis |-> 0, temperature |-> 0, eta |-> 0, files |-> {}]]

\* a run that raised an exception has ended: no statement runs after it
Running == error = "none"

\* ------------------------------------------------------------ Init
\* the instructor after __init__, for a config of the set cfgs
InitRun(cfgs) ==
    /\ cfg \in cfgs
    /\ pc = RunSections[1]
    /\ error = "none"
    /\ sig = [pre_sig |-> TRUE, adv_sig |-> TRUE]
    /\ epochs = 0
    /\ epoch = Unbound
    /\ dpre_step = Unbound
    /\ dpre_epoch = Unbound
    /\ d_loss = "unbound"
    /\ adv_epoch = Unbound
    /\ g_i = Unbound
    /\ d_i = Unbound
    /\ genParams = 0
    /\ disParams = 0
    /\ temperature = cfg.temperature
    /\ eta = cfg.eta
    /\ gradSlot = [gen |-> 0, temperature |-> 0, eta |-> 0]
    /\ disGrad = [src |-> {}, clipped |-> FALSE]
    /\ old = <<0, 0>>
    /\ est = NoLocals
    /\ dis_data = [round |-> Unbound, gen |-> 0]
    /\ files = {}
    /\ h = H0

\* GumbelGAN_G.sample and the Relaxed Sampler before any call
NoSample ==
    [pc |-> "idle", num_samples |-> 0, batch_size |-> 1, num_batch |-> 0,
     samples |-> << >>, written |-> {}, b |-> Unbound, i |-> Unbound, inp |-> << >>,
     result |-> << >>]
NoDraw == [pc |-> "idle", theta |-> << >>, u |-> << >>, v |-> << >>,
           hard |-> 0, z_tilde |-> << >>]

\* the state after __init__, for a config of the set cfgs: a training run
InitWith(cfgs) ==
    /\ InitRun(cfgs)
    /\ gsample = NoSample
    /\ relaxed = NoDraw

Init == InitWith(FullCfgs)

\* ------------------------------------------------------------ _run, first section
\* _run: if not cfg.gen_pretrain: self.pretrain_generator(cfg.MLE_train_epoch)
GenCheck ==
    /\ pc = "gen_check"
    /\ Running
    /\ UNCHANGED fnVars
    /\ IF ~cfg.gen_pretrain
       THEN /\ pc' = "mle_loop"
            /\ epochs' = cfg.MLE_train_epoch
       ELSE /\ pc' = NextSection("gen_check")
            /\ UNCHANGED epochs
    /\ UNCHANGED <<error, cfg, sig, epoch, dpre_step, dpre_epoch, d_loss, adv_epoch, g_i,
                   d_i, paramVars, gradVars, dis_data, files, h>>

\* pretrain_generator: for epoch in range(epochs)
MleLoop ==
    /\ pc = "mle_loop"
    /\ Running
    /\ UNCHANGED fnVars
    /\ IF epoch + 1 < epochs
       THEN /\ epoch' = epoch + 1
            /\ pc' = "mle_poll"
       ELSE /\ pc' = "mle_final"
            /\ UNCHANGED epoch
    /\ UNCHANGED <<error, cfg, sig, epochs, dpre_step, dpre_epoch, d_loss, adv_epoch, g_i,
                   d_i, paramVars, gradVars, dis_data, files, h>>

\* a faulty variant: continue instead of break
MleAfterPoll_Continue(s) == IF s THEN "mle_train" ELSE "mle_loop"

\* where pretrain_generator goes after reading self.sig.pre_sig
MleAfterPoll(s) == IF s THEN "mle_train" ELSE "mle_final"

\* pretrain_generator: self.sig.update(); if self.sig.pre_sig: ... else: break
MlePoll ==
    /\ pc = "mle_poll"
    /\ Running
    /\ UNCHANGED fnVars
    /\ \E s \in SigValues :
        /\ sig' = s
        /\ pc' = MleAfterPoll(s.pre_sig)
        /\ h' = [h EXCEPT !.mlePolls = @ + 1, !.mleStop = @ \/ ~s.pre_sig]
    /\ UNCHANGED <<error, cfg, loopVars, paramVars, gradVars, dis_data, files>>

\* the optimizer pretrain_generator hands to train_gen_epoch
PreGenOpt == "gen_opt"

\* pretrain_generator: pre_loss = self.train_gen_epoch(self.gen, ..., self.gen_opt)
MleTrain ==
    /\ pc = "mle_train"
    /\ Running
    /\ UNCHANGED fnVars
    /\ genParams' = StepVersion(PreGenOpt, "gen", genParams)
    /\ disParams' = StepVersion(PreGenOpt, "dis", disParams)
    /\ pc' = "mle_test"
    /\ h' = [h EXCEPT !.mleTrain = @ + 1]
    /\ UNCHANGED <<error, cfg, sig, loopVars, temperature, eta, gradVars, dis_data, files>>

\* pretrain_generator: the epochs that are logged and saved
MleLogged == epoch % cfg.pre_log_step = 0 \/ epoch = epochs - 1

\* pretrain_generator: log with cal_metrics, then self._save('MLE', epoch)
MleTest ==
    /\ pc = "mle_test"
    /\ Running
    /\ UNCHANGED fnVars
    /\ IF MleLogged
       THEN /\ h' = [h EXCEPT !.metrics = @ + 1]
            /\ files' = IF SaveEnabled THEN files \cup {<<"MLE", epoch>>} ELSE files
       ELSE UNCHANGED <<h, files>>
    /\ pc' = "mle_loop"
    /\ UNCHANGED <<error, cfg, sig, loopVars, paramVars, gradVars, dis_data>>

\* pretrain_generator, after the loop: self._save('MLE', epoch); epoch is unbound
\* when the loop body never ran
MleFinal ==
    /\ pc = "mle_final"
    /\ Running
    /\ UNCHANGED fnVars
    /\ IF SaveEnabled /\ epoch = Unbound
       THEN /\ error' = "NameError: epoch"
            /\ UNCHANGED <<pc, files>>
       ELSE /\ files' = IF SaveEnabled THEN files \cup {<<"MLE", epoch>>} ELSE files
            /\ pc' = "gen_save"
            /\ UNCHANGED error
    /\ UNCHANGED <<cfg, sig, loopVars, paramVars, gradVars, dis_data, h>>

\* _run: if cfg.if_save and not cfg.if_test:
\*     torch.save(self.gen.state_dict(), cfg.pretrained_gen_path)
GenSave ==
    /\ pc = "gen_save"
    /\ Running
    /\ UNCHANGED fnVars
    /\ IF SaveEnabled
       THEN /\ files' = files \cup {<<"pretrained_gen", 0>>}
            /\ pc' = "gen_saved"
       ELSE /\ pc' = NextSection("gen_check")
            /\ UNCHANGED files
    /\ UNCHANGED <<error, cfg, sig, loopVars, paramVars, gradVars, dis_data, h>>

\* _run: print('Save pretrain_generator: ...'), the end of the first section
GenSaved ==
    /\ pc = "gen_saved"
    /\ Running
    /\ UNCHANGED fnVars
    /\ pc' = NextSection("gen_check")
    /\ UNCHANGED <<error, cfg, sig, loopVars, paramVars, gradVars, dis_data, files, h>>

\* ------------------------------------------------------------ _run, second section
\* a faulty variant: the second section is guarded by the flag of the first
DisCheck_WrongFlag ==
    /\ pc = "dis_check"
    /\ Running
    /\ UNCHANGED fnVars
    /\ pc' = IF ~cfg.gen_pretrain THEN "dpre_loop" ELSE NextSection("dis_check")
    /\ UNCHANGED <<error, cfg, sig, loopVars, paramVars, gradVars, dis_data, files, h>>

\* _run: if not cfg.dis_pretrain: self.pretrain_discriminator(cfg.d_step, cfg.d_epoch)
DisCheck ==
    /\ pc = "dis_check"
    /\ Running
    /\ UNCHANGED fnVars
    /\ pc' = IF ~cfg.dis_pretrain THEN "dpre_loop" ELSE NextSection("dis_check")
    /\ UNCHANGED <<error, cfg, sig, loopVars, paramVars, gradVars, dis_data, files, h>>

\* pretrain_discriminator: for step in range(d_step)
DpreLoop ==
    /\ pc = "dpre_loop"
    /\ Running
    /\ UNCHANGED fnVars
    /\ IF dpre_step + 1 < cfg.d_step
       THEN /\ dpre_step' = dpre_step + 1
            /\ pc' = "dpre_sample"
       ELSE /\ pc' = "dis_save"
            /\ UNCHANGED dpre_step
    /\ UNCHANGED <<error, cfg, sig, epochs, epoch, dpre_epoch, d_loss, adv_epoch, g_i, d_i,
                   paramVars, gradVars, dis_data, files, h>>

\* pretrain_discriminator: neg_samples = self.gen.sample(...);
\* self.dis_data.reset(pos_samples, neg_samples); the inner loop starts anew
DpreSample ==
    /\ pc = "dpre_sample"
    /\ Running
    /\ UNCHANGED fnVars
    /\ dis_data' = [round |-> dpre_step, gen |-> genParams]
    /\ dpre_epoch' = Unbound
    /\ pc' = "dpre_epoch"
    /\ h' = [h EXCEPT !.dpreResets = @ + 1, !.roundTrain = 0]
    /\ UNCHANGED <<error, cfg, sig, epochs, epoch, dpre_step, d_loss, adv_epoch, g_i, d_i,
                   paramVars, gradVars, files>>

\* the optimizer pretrain_discriminator hands to train_dis_epoch
PreDisOpt == "dis_opt"

\* pretrain_discriminator: for epoch in range(d_epoch):
\*     d_loss, train_acc = self.train_dis_epoch(self.dis, ..., self.dis_opt, ...)
DpreEpoch ==
    /\ pc = "dpre_epoch"
    /\ Running
    /\ UNCHANGED fnVars
    /\ IF dpre_epoch + 1 < cfg.d_epoch
       THEN /\ dpre_epoch' = dpre_epoch + 1
            /\ disParams' = StepVersion(PreDisOpt, "dis", disParams)
            /\ genParams' = StepVersion(PreDisOpt, "gen", genParams)
            /\ d_loss' = "bound"
            /\ h' = [h EXCEPT !.dpreTrain = @ + 1, !.roundTrain = @ + 1]
            /\ UNCHANGED pc
       ELSE /\ pc' = "dpre_log"
            /\ UNCHANGED <<dpre_epoch, disParams, genParams, d_loss, h>>
    /\ UNCHANGED <<error, cfg, sig, epochs, epoch, dpre_step, adv_epoch, g_i, d_i,
                   temperature, eta, gradVars, dis_data, files>>

\* pretrain_discriminator: self.log.info(... % (phrase, step, d_loss, train_acc));
\* d_loss is unbound when no epoch has run
DpreLog ==
    /\ pc = "dpre_log"
    /\ Running
    /\ UNCHANGED fnVars
    /\ IF d_loss = "unbound"
       THEN /\ error' = "NameError: d_loss"
            /\ UNCHANGED pc
       ELSE /\ pc' = "dpre_loop"
            /\ UNCHANGED error
    /\ UNCHANGED <<cfg, sig, loopVars, paramVars, gradVars, dis_data, files, h>>

\* _run: if cfg.if_save and not cfg.if_test:
\*     torch.save(self.dis.state_dict(), cfg.pretrained_dis_path)
DisSave ==
    /\ pc = "dis_save"
    /\ Running
    /\ UNCHANGED fnVars
    /\ IF SaveEnabled
       THEN /\ files' = files \cup {<<"pretrained_dis", 0>>}
            /\ pc' = "dis_saved"
       ELSE /\ pc' = NextSection("dis_check")
            /\ UNCHANGED files
    /\ UNCHANGED <<error, cfg, sig, loopVars, paramVars, gradVars, dis_data, h>>

\* _run: print('Save pretrain_generator discriminator: ...'), the end of the second section
DisSaved ==
    /\ pc = "dis_saved"
    /\ Running
    /\ UNCHANGED fnVars
    /\ pc' = NextSection("dis_check")
    /\ UNCHANGED <<error, cfg, sig, loopVars, paramVars, gradVars, dis_data, files, h>>

\* ------------------------------------------------------------ _run, third section
\* _run: self.log.info('Initial generator: %s' % (self.cal_metrics(fmt_str=True)))
AdvStart ==
    /\ pc = "adv_start"
    /\ Running
    /\ UNCHANGED fnVars
    /\ h' = [h EXCEPT !.metrics = @ + 1]
    /\ pc' = "adv_loop"
    /\ UNCHANGED <<error, cfg, sig, loopVars, paramVars, gradVars, dis_data, files>>

\* _run: for adv_epoch in range(cfg.ADV_train_epoch); the history starts a round
AdvLoop ==
    /\ pc = "adv_loop"
    /\ Running
    /\ UNCHANGED fnVars
    /\ IF adv_epoch + 1 < cfg.ADV_train_epoch
       THEN /\ adv_epoch' = adv_epoch + 1
            /\ pc' = "adv_poll"
            /\ h' = [h EXCEPT !.roundPolls = 0, !.roundG = 0, !.roundD = 0,
                              !.snap = ParamSnap]
       ELSE /\ pc' = NextSection("adv_start")
            /\ UNCHANGED <<adv_epoch, h>>
    /\ UNCHANGED <<error, cfg, sig, epochs, epoch, dpre_step, dpre_epoch, d_loss, g_i, d_i,
                   paramVars, gradVars, dis_data, files>>

\* a faulty variant: a stop makes the loop poll again instead of leaving
AdvAfterPoll_Wait(s) == IF s THEN "g_init" ELSE "adv_poll"

\* a faulty variant: the signal is read and not acted on
AdvAfterPoll_NoBreak(s) == "g_init"

\* where _run goes after reading self.sig.adv_sig: the round, or the break
AdvAfterPoll(s) == IF s THEN "g_init" ELSE NextSection("adv_start")

\* _run: self.sig.update(); if self.sig.adv_sig: ... else: break
AdvPoll ==
    /\ pc = "adv_poll"
    /\ Running
    /\ UNCHANGED fnVars
    /\ \E s \in SigValues :
        /\ sig' = s
        /\ pc' = AdvAfterPoll(s.adv_sig)
        /\ h' = [h EXCEPT !.advPolls = @ + 1, !.roundPolls = @ + 1,
                          !.advStop = @ \/ ~s.adv_sig]
    /\ UNCHANGED <<error, cfg, loopVars, paramVars, gradVars, dis_data, files>>

\* _run: if adv_epoch % cfg.adv_log_step == 0: if cfg.if_save and not cfg.if_test:
\*     self._save('ADV', adv_epoch)
AdvSave ==
    /\ pc = "adv_save"
    /\ Running
    /\ UNCHANGED fnVars
    /\ files' = IF adv_epoch % cfg.adv_log_step = 0 /\ SaveEnabled
                THEN files \cup {<<"ADV", adv_epoch>>} ELSE files
    /\ pc' = "adv_loop"
    /\ UNCHANGED <<error, cfg, sig, loopVars, paramVars, gradVars, dis_data, h>>

\* ------------------------------------------------------------ adv_train_generator
\* a faulty variant: the discriminator's step count handed to adv_train_generator
AdvGenSteps_Mixed == cfg.ADV_d_step

\* _run: the step counts handed to the two adversarial functions
AdvGenSteps == cfg.ADV_g_step
AdvDisSteps == cfg.ADV_d_step

\* adv_train_generator: rebar_ge = RebarGradientEstimator(...); total_rebar_loss = 0;
\* old_temperature = self.gen.temperature.item(); old_eta = self.gen.eta.item()
GInit ==
    /\ pc = "g_init"
    /\ Running
    /\ UNCHANGED fnVars
    /\ old' = <<temperature, eta>>
    /\ g_i' = Unbound
    /\ pc' = "g_loop"
    /\ UNCHANGED <<error, cfg, sig, epochs, epoch, dpre_step, dpre_epoch, d_loss, adv_epoch,
                   d_i, paramVars, gradSlot, disGrad, est, dis_data, files, h>>

\* adv_train_generator: for step in range(g_step)
GLoop ==
    /\ pc = "g_loop"
    /\ Running
    /\ UNCHANGED fnVars
    /\ IF g_i + 1 < AdvGenSteps
       THEN /\ g_i' = g_i + 1
            /\ pc' = "g_sample"
            /\ h' = [h EXCEPT !.ops = << >>]
       ELSE /\ pc' = "g_test"
            /\ UNCHANGED <<g_i, h>>
    /\ UNCHANGED <<error, cfg, sig, epochs, epoch, dpre_step, dpre_epoch, d_loss, adv_epoch,
                   d_i, paramVars, gradVars, dis_data, files>>

\* adv_train_generator: theta, z = self.gen.sample_theta(cfg.batch_size)
GSample ==
    /\ pc = "g_sample"
    /\ Running
    /\ UNCHANGED fnVars
    /\ est' = [est EXCEPT !.theta = genParams]
    /\ pc' = "g_estimate"
    /\ h' = [h EXCEPT !.ops = Append(@, "sample_theta")]
    /\ UNCHANGED <<error, cfg, sig, loopVars, paramVars, gradSlot, disGrad, old, dis_data,
                   files>>

\* a faulty variant: the values read before the loop are handed to every call
EstimatorArgs_Stale == old

\* adv_train_generator: the temperature and eta handed to estimate_gradient:
\* self.gen.temperature.clone().detach().requires_grad_(), and the same of eta
EstimatorArgs == <<temperature, eta>>

\* adv_train_generator: estimated_gradient, temperature_grad, eta_grad =
\*     rebar_ge.estimate_gradient(theta, z, <temperature copy>, <eta copy>);
\* the discriminator scores inside the call, which may leave gradients on it
GEstimate ==
    /\ pc = "g_estimate"
    /\ Running
    /\ UNCHANGED fnVars
    /\ \E tg \in GradValues, eg \in GradValues :
        est' = [est EXCEPT !.args = EstimatorArgs, !.out = <<tg, eg>>]
    /\ disGrad' = [disGrad EXCEPT !.src = @ \cup {"oracle"}]
    /\ pc' = "g_loss"
    /\ h' = [h EXCEPT !.ops = Append(@, "estimate_gradient")]
    /\ UNCHANGED <<error, cfg, sig, loopVars, paramVars, gradSlot, old, dis_data, files>>

\* adv_train_generator: g if cfg.learn_x else torch.zeros_like(g)
Masked(learn, g) == IF learn THEN g ELSE 0

\* a faulty variant: each gradient masked by the other parameter's flag
MaskedGrads_Swapped(out) ==
    <<Masked(cfg.learn_eta, out[1]), Masked(cfg.learn_temperature, out[2])>>

\* adv_train_generator: the gradients handed to set_variance_loss_gradients
MaskedGrads(out) ==
    <<Masked(cfg.learn_temperature, out[1]), Masked(cfg.learn_eta, out[2])>>

\* adv_train_generator: adv_loss = self.gen.computeRebarLoss(estimated_gradient);
\* temperature_grad = ...; eta_grad = ...
GLoss ==
    /\ pc = "g_loss"
    /\ Running
    /\ UNCHANGED fnVars
    /\ est' = [est EXCEPT !.grads = MaskedGrads(est.out)]
    /\ pc' = "opt_zero"
    /\ UNCHANGED <<error, cfg, sig, loopVars, paramVars, gradSlot, disGrad, old, dis_data,
                   files, h>>

\* a faulty variant: optimize called without the callback
OptimizeCallback_None == "none"

\* adv_train_generator: the optimizer and the callback handed to self.optimize
AdvGenOpt == "gen_adv_opt"
OptimizeCallback == "set_variance_loss_gradients"

\* optimize: opt.zero_grad()
OptZero ==
    /\ pc = "opt_zero"
    /\ Running
    /\ UNCHANGED fnVars
    /\ gradSlot' = [n \in DOMAIN gradSlot |->
                      IF n \in OptParams(AdvGenOpt) THEN 0 ELSE gradSlot[n]]
    /\ pc' = "opt_backward"
    /\ h' = [h EXCEPT !.ops = Append(@, "zero_grad")]
    /\ UNCHANGED <<error, cfg, sig, loopVars, paramVars, disGrad, old, est, dis_data, files>>

\* optimize: loss.backward(); temperature and eta get no gradient from adv_loss
OptBackward ==
    /\ pc = "opt_backward"
    /\ Running
    /\ UNCHANGED fnVars
    /\ gradSlot' = [gradSlot EXCEPT !.gen = 1]
    /\ pc' = "opt_callback"
    /\ h' = [h EXCEPT !.ops = Append(@, "backward")]
    /\ UNCHANGED <<error, cfg, sig, loopVars, paramVars, disGrad, old, est, dis_data, files>>

\* optimize: callback(), here self.gen.set_variance_loss_gradients(temperature_grad,
\* eta_grad), which writes the two .grad slots
OptCallback ==
    /\ pc = "opt_callback"
    /\ Running
    /\ UNCHANGED fnVars
    /\ IF OptimizeCallback = "set_variance_loss_gradients"
       THEN /\ gradSlot' = [gradSlot EXCEPT !.temperature = est.grads[1],
                                            !.eta = est.grads[2]]
            /\ h' = [h EXCEPT !.ops = Append(@, "inject")]
       ELSE UNCHANGED <<gradSlot, h>>
    /\ pc' = "opt_step"
    /\ UNCHANGED <<error, cfg, sig, loopVars, paramVars, disGrad, old, est, dis_data, files>>

\* optimize: opt.step(); then adv_train_generator: total_rebar_loss += adv_loss.item()
OptStep ==
    /\ pc = "opt_step"
    /\ Running
    /\ UNCHANGED fnVars
    /\ genParams' = StepVersion(AdvGenOpt, "gen", genParams)
    /\ disParams' = StepVersion(AdvGenOpt, "dis", disParams)
    /\ temperature' = StepScalar(AdvGenOpt, "temperature", temperature, gradSlot.temperature)
    /\ eta' = StepScalar(AdvGenOpt, "eta", eta, gradSlot.eta)
    /\ pc' = "g_loop"
    /\ h' = [h EXCEPT !.ops = Append(@, "step"), !.advG = @ + 1, !.roundG = @ + 1]
    /\ UNCHANGED <<error, cfg, sig, loopVars, gradVars, dis_data, files>>

\* adv_train_generator: avg_rebar_loss = ...; if adv_epoch % cfg.adv_log_step == 0:
\*     self.log.info(... self.cal_metrics(fmt_str=True)); the function returns and
\* its locals are gone
GTest ==
    /\ pc = "g_test"
    /\ Running
    /\ UNCHANGED fnVars
    /\ h' = IF adv_epoch % cfg.adv_log_step = 0 THEN [h EXCEPT !.metrics = @ + 1] ELSE h
    /\ est' = NoLocals
    /\ old' = <<0, 0>>
    /\ pc' = "d_init"
    /\ UNCHANGED <<error, cfg, sig, loopVars, paramVars, gradSlot, disGrad, dis_data, files>>

\* ------------------------------------------------------------ adv_train_discriminator
\* adv_train_discriminator: total_loss = 0; total_acc = 0
DInit ==
    /\ pc = "d_init"
    /\ Running
    /\ UNCHANGED fnVars
    /\ d_i' = Unbound
    /\ pc' = "d_loop"
    /\ UNCHANGED <<error, cfg, sig, epochs, epoch, dpre_step, dpre_epoch, d_loss, adv_epoch,
                   g_i, paramVars, gradVars, dis_data, files, h>>

\* adv_train_discriminator: for step in range(d_step)
DLoop ==
    /\ pc = "d_loop"
    /\ Running
    /\ UNCHANGED fnVars
    /\ IF d_i + 1 < AdvDisSteps
       THEN /\ d_i' = d_i + 1
            /\ pc' = "d_forward"
            /\ h' = [h EXCEPT !.ops = << >>]
       ELSE /\ pc' = "d_test"
            /\ UNCHANGED <<d_i, h>>
    /\ UNCHANGED <<error, cfg, sig, epochs, epoch, dpre_step, dpre_epoch, d_loss, adv_epoch,
                   g_i, paramVars, gradVars, dis_data, files>>

\* adv_train_discriminator: real_samples, gen_samples = ...; d_out_real, d_out_fake;
\* _, d_loss = get_losses(d_out_real, d_out_fake, cfg.loss_type)
DForward ==
    /\ pc = "d_forward"
    /\ Running
    /\ UNCHANGED fnVars
    /\ IF cfg.loss_type \in LossTypes
       THEN /\ pc' = "d_zero"
            /\ h' = [h EXCEPT !.ops = Append(@, "forward")]
            /\ UNCHANGED error
       ELSE /\ error' = "NotImplementedError: loss_type"
            /\ UNCHANGED <<pc, h>>
    /\ UNCHANGED <<cfg, sig, loopVars, paramVars, gradVars, dis_data, files>>

\* a faulty variant: the update without its zero_grad
DZero_Missing ==
    /\ pc = "d_zero"
    /\ Running
    /\ UNCHANGED fnVars
    /\ pc' = "d_backward"
    /\ UNCHANGED <<error, cfg, sig, loopVars, paramVars, gradVars, dis_data, files, h>>

\* adv_train_discriminator: self.dis_opt.zero_grad()
DZero ==
    /\ pc = "d_zero"
    /\ Running
    /\ UNCHANGED fnVars
    /\ disGrad' = [src |-> {}, clipped |-> FALSE]
    /\ pc' = "d_backward"
    /\ h' = [h EXCEPT !.ops = Append(@, "zero_grad")]
    /\ UNCHANGED <<error, cfg, sig, loopVars, paramVars, gradSlot, old, est, dis_data, files>>

\* adv_train_discriminator: d_loss.backward()
DBackward ==
    /\ pc = "d_backward"
    /\ Running
    /\ UNCHANGED fnVars
    /\ disGrad' = [disGrad EXCEPT !.src = @ \cup {"d_loss"}]
    /\ pc' = "d_clip"
    /\ h' = [h EXCEPT !.ops = Append(@, "backward")]
    /\ UNCHANGED <<error, cfg, sig, loopVars, paramVars, gradSlot, old, est, dis_data, files>>

\* adv_train_discriminator: torch.nn.utils.clip_grad_norm_(self.dis.parameters(), ...)
DClip ==
    /\ pc = "d_clip"
    /\ Running
    /\ UNCHANGED fnVars
    /\ disGrad' = [disGrad EXCEPT !.clipped = TRUE]
    /\ pc' = "d_step"
    /\ h' = [h EXCEPT !.ops = Append(@, "clip")]
    /\ UNCHANGED <<error, cfg, sig, loopVars, paramVars, gradSlot, old, est, dis_data, files>>

\* a faulty variant: the discriminator update steps the generator's adversarial optimizer
AdvDisOpt_Wrong == "gen_adv_opt"

\* the optimizer adv_train_discriminator steps
AdvDisOpt == "dis_opt"

\* adv_train_discriminator: self.dis_opt.step(); total_loss += d_loss.item(); ...
DStep ==
    /\ pc = "d_step"
    /\ Running
    /\ UNCHANGED fnVars
    /\ disParams' = StepVersion(AdvDisOpt, "dis", disParams)
    /\ genParams' = StepVersion(AdvDisOpt, "gen", genParams)
    /\ temperature' = StepScalar(AdvDisOpt, "temperature", temperature, gradSlot.temperature)
    /\ eta' = StepScalar(AdvDisOpt, "eta", eta, gradSlot.eta)
    /\ pc' = "d_loop"
    /\ h' = [h EXCEPT !.ops = Append(@, "step"), !.advD = @ + 1, !.roundD = @ + 1]
    /\ UNCHANGED <<error, cfg, sig, loopVars, gradVars, dis_data, files>>

\* adv_train_discriminator: avg_loss = ...; the [ADV-DIS] log line
DTest ==
    /\ pc = "d_test"
    /\ Running
    /\ UNCHANGED fnVars
    /\ pc' = "adv_save"
    /\ UNCHANGED <<error, cfg, sig, loopVars, paramVars, gradVars, dis_data, files, h>>

\* ------------------------------------------------------------ GumbelGAN_G.sample
\* the generator's self.max_seq_len and self.vocab_size, and cfg.start_letter
max_seq_len == 2
vocab_size == 2
start_letter == 1

\* the tokens torch.argmax(gumbel_t, dim=1) can return
Tokens == 0..(vocab_size - 1)

\* a faulty variant: the number of batches rounded down
NumBatch_Floor(num_samples, batch_size) == num_samples \div batch_size

\* sample: num_batch = num_samples // batch_size + 1 if num_samples != batch_size else 1
NumBatch(num_samples, batch_size) ==
    IF num_samples # batch_size THEN num_samples \div batch_size + 1 ELSE 1

\* torch.zeros(rows, cols).long()
Zeros(rows, cols) == [r \in 1..rows |-> [c \in 1..cols |-> 0]]

\* samples[:n]: the first n rows, all of them when there are fewer
FirstRows(samples, n) == SubSeq(samples, 1, IF n < Len(samples) THEN n ELSE Len(samples))

\* sample: num_batch = ...; samples = torch.zeros(num_batch * batch_size, max_seq_len)
SampleAlloc ==
    /\ gsample.pc = "call"
    /\ LET nb == NumBatch(gsample.num_samples, gsample.batch_size)
       IN  gsample' = [gsample EXCEPT !.num_batch = nb,
                                      !.samples = Zeros(nb * gsample.batch_size, max_seq_len),
                                      !.pc = "b_loop"]
    /\ UNCHANGED <<runVars, relaxed>>

\* sample: for b in range(num_batch): hidden = ...; inp = LongTensor([start_letter] * batch_size)
SampleBatch ==
    /\ gsample.pc = "b_loop"
    /\ IF gsample.b + 1 < gsample.num_batch
       THEN gsample' = [gsample EXCEPT !.b = @ + 1, !.i = Unbound,
                                       !.inp = [k \in 1..gsample.batch_size |-> start_letter],
                                       !.pc = "i_loop"]
       ELSE gsample' = [gsample EXCEPT !.pc = "slice"]
    /\ UNCHANGED <<runVars, relaxed>>

\* sample: for i in range(max_seq_len): ..., next_token, _ = self.step(inp, hidden);
\* samples[b * batch_size:(b + 1) * batch_size, i] = next_token; inp = next_token
SampleStep ==
    /\ gsample.pc = "i_loop"
    /\ IF gsample.i + 1 < max_seq_len
       THEN \E next_token \in [1..gsample.batch_size -> Tokens] :
              LET i == gsample.i + 1
                  lo == gsample.b * gsample.batch_size
                  hi == (gsample.b + 1) * gsample.batch_size
                  rows == {r \in DOMAIN gsample.samples : lo < r /\ r <= hi}
              IN  gsample' =
                    [gsample EXCEPT
                       !.i = i,
                       !.samples = [r \in DOMAIN @ |->
                                      IF r \in rows
                                      THEN [@[r] EXCEPT ![i + 1] = next_token[r - lo]]
                                      ELSE @[r]],
                       !.written = @ \cup {<<r, i + 1>> : r \in rows},
                       !.inp = next_token]
       ELSE gsample' = [gsample EXCEPT !.pc = "b_loop"]
    /\ UNCHANGED <<runVars, relaxed>>

\* sample: samples = samples[:num_samples]; return samples (one_hot is False)
SampleSlice ==
    /\ gsample.pc = "slice"
    /\ gsample' = [gsample EXCEPT !.result = FirstRows(gsample.samples, gsample.num_samples),
                                  !.pc = "returned"]
    /\ UNCHANGED <<runVars, relaxed>>

\* ------------------------------------------------------------ the Relaxed Sampler
\* The sampler works on logits and on Gumbel noise -log(-log(u)).  Only the order of
\* the relaxations' entries matters for an arg-max, so the model keeps weights
\* exp(logit) and exponential noise -log(u) as positive integers and represents a
\* relaxation by integers in the same order as its entries.

\* the categories of one position (the vocabulary of the draw)
Categories == 1..3

\* the weights theta (unnormalised probabilities) and the noise -log(u), u in (0, 1)
Thetas == [Categories -> 1..MaxTheta]
Noises == [Categories -> 1..MaxNoise]

\* the product of f over the categories other than i
RECURSIVE ProdOver(_, _)
ProdOver(f, S) ==
    IF S = {} THEN 1 ELSE LET i == CHOOSE x \in S : TRUE IN f[i] * ProdOver(f, S \ {i})
ProdOthers(f, i) == ProdOver(f, Categories \ {i})

\* torch.argmax: the first index that holds the largest entry
ArgMax(f) ==
    CHOOSE i \in DOMAIN f : \A j \in DOMAIN f : f[i] > f[j] \/ (f[i] = f[j] /\ i <= j)

\* the unconditional relaxation z = log theta - log(-log u), in the order of
\* theta[i] / noise[i], brought to the common denominator of the noise
ZOf(theta, u) == [i \in Categories |-> theta[i] * ProdOthers(u, i)]

\* a faulty variant: a second relaxation drawn without looking at the hard sample
ZTilde_Unconditional(theta, v, hard) == ZOf(theta, v)

\* the conditional relaxation: -log(-log v) at the hard sample, and elsewhere
\* -log(-log(v[i]) / theta[i] - log v[hard]), the noise truncated at the hard
\* sample's; in the order of the negated arguments of the outer log, brought to the
\* common denominator of theta
ZTilde(theta, v, hard) ==
    LET top == v[hard] * ProdOver(theta, Categories)
    IN  [i \in Categories |->
            IF i = hard THEN 0 - top ELSE 0 - (top + v[i] * ProdOthers(theta, i))]

\* sample(theta): the noise u, z and hard_sample = argmax(z)
RelaxedHard ==
    /\ relaxed.pc = "call"
    /\ \E u \in Noises :
          relaxed' = [relaxed EXCEPT !.u = u, !.hard = ArgMax(ZOf(relaxed.theta, u)),
                                     !.pc = "hard"]
    /\ UNCHANGED <<runVars, gsample>>

\* sample(theta): the fresh noise v and z_tilde, conditioned on hard_sample
RelaxedConditional ==
    /\ relaxed.pc = "hard"
    /\ \E v \in Noises :
          relaxed' = [relaxed EXCEPT !.v = v,
                                     !.z_tilde = ZTilde(relaxed.theta, v, relaxed.hard),
                                     !.pc = "drawn"]
    /\ UNCHANGED <<runVars, gsample>>

\* ------------------------------------------------------------ specifications
PreGenActions == MleLoop \/ MlePoll \/ MleTrain \/ MleTest \/ MleFinal \/ GenSave \/ GenSaved
PreDisActions == DpreLoop \/ DpreSample \/ DpreEpoch \/ DpreLog \/ DisSave \/ DisSaved
RoundActions ==
    \/ AdvPoll \/ GInit \/ GLoop \/ GTest \/ DInit \/ DLoop \/ DTest \/ AdvSave
GenStepActions == GSample \/ GEstimate \/ GLoss \/ OptZero \/ OptBackward \/ OptCallback \/ OptStep
DisStepActions == DForward \/ DZero \/ DBackward \/ DClip \/ DStep

Next ==
    \/ GenCheck \/ DisCheck \/ AdvStart \/ AdvLoop
    \/ PreGenActions \/ PreDisActions
    \/ RoundActions \/ GenStepActions \/ DisStepActions

Spec == Init /\ [][Next]_vars

\* the whole run under any loss selector
InitLoss == InitWith(LossCfgs)
SpecLoss == InitLoss /\ [][Next]_vars

\* the whole run under any logging interval
InitSave == InitWith(SaveCfgs)
SpecSave == InitSave /\ [][Next]_vars

\* one call sample(num_samples, batch_size) of GumbelGAN_G, one_hot False
InitSample ==
    /\ InitRun(IdleCfgs)
    /\ relaxed = NoDraw
    /\ \E ns \in 0..MaxSamples, bs \in 1..MaxBatch :
          gsample = [NoSample EXCEPT !.pc = "call", !.num_samples = ns, !.batch_size = bs]
NextSample == SampleAlloc \/ SampleBatch \/ SampleStep \/ SampleSlice
SpecSample == InitSample /\ [][NextSample]_vars

\* one draw of the Relaxed Sampler, for any theta
InitRelaxed ==
    /\ InitRun(IdleCfgs)
    /\ gsample = NoSample
    /\ \E theta \in Thetas : relaxed = [NoDraw EXCEPT !.pc = "call", !.theta = theta]
NextRelaxed == RelaxedHard \/ RelaxedConditional
SpecRelaxed == InitRelaxed /\ [][NextRelaxed]_vars

\* the pretraining phases alone
InitPre == InitWith(PreCfgs)
NextPre ==
    \/ GenCheck \/ DisCheck \/ AdvStart \/ AdvLoop
    \/ PreGenActions \/ PreDisActions
SpecPre == InitPre /\ [][NextPre]_vars

\* the adversarial phase alone, estimator gradients masked
InitAdv == InitWith(AdvCfgs)
NextAdv ==
    \/ GenCheck \/ DisCheck \/ AdvStart \/ AdvLoop
    \/ RoundActions \/ GenStepActions \/ DisStepActions
SpecAdv == InitAdv /\ [][NextAdv]_vars

\* the adversarial phase of a running program: _run is sequential code, a statement
\* that has been reached is executed
SpecAdvFair == InitAdv /\ [][NextAdv]_vars /\ WF_vars(NextAdv)

\* discriminator pretraining and one adversarial round, temperature and eta learnable
InitGrad == InitWith(GradCfgs)
NextGrad ==
    \/ GenCheck \/ DisCheck \/ AdvStart \/ AdvLoop
    \/ PreDisActions
    \/ RoundActions \/ GenStepActions \/ DisStepActions
SpecGrad == InitGrad /\ [][NextGrad]_vars

\* ------------------------------------------------------------ claims
PhaseRank(ph) ==
    CASE ph = "PRETRAIN_G" -> 1 [] ph = "PRETRAIN_D" -> 2 [] ph = "ADV" -> 3
      [] ph = "TERMINATED" -> 4

\* the numbers of operations of each phase performed so far
MleOps == h.mlePolls + h.mleTrain
DpreOps == h.dpreResets + h.dpreTrain
AdvOps == h.advG + h.advD

\* C1: the phases occur in the order PRETRAIN_G, PRETRAIN_D, ADV, TERMINATED: a
\* step never goes back to an earlier phase, every operation happens in its own
\* phase, no generator-pretraining operation follows one of a later phase, and no
\* discriminator-pretraining operation follows an adversarial update.
C1_PhaseOrder ==
    [][/\ PhaseRank(PhaseOf(pc')) >= PhaseRank(PhaseOf(pc))
       /\ MleOps' # MleOps => Phase = "PRETRAIN_G" /\ DpreOps = 0 /\ AdvOps = 0
       /\ DpreOps' # DpreOps => Phase = "PRETRAIN_D" /\ AdvOps = 0
       /\ AdvOps' # AdvOps => Phase = "ADV"]_vars

\* a run that trained in all three phases and returned
C1_Witness ==
    pc = "done" /\ h.mleTrain > 0 /\ h.dpreTrain > 0 /\ h.advG > 0 /\ h.advD > 0

\* the positions of one adversarial round after its poll
RoundBody ==
    {"g_init", "g_loop", "g_sample", "g_estimate", "g_loss", "opt_zero", "opt_backward",
     "opt_callback", "opt_step", "g_test", "d_init", "d_loop", "d_forward", "d_zero",
     "d_backward", "d_clip", "d_step", "d_test", "adv_save"}

\* C2: in the adversarial phase the stop signal is refreshed and read once per
\* round, before any update of the round; after a poll that says stop nothing is
\* updated or saved and the run returns without an error, with the parameters and
\* the files of the end of the previous round.
C2_PollAtRoundStart ==
    [][/\ pc' \in RoundBody => h'.roundPolls = 1 /\ sig'.adv_sig
       /\ h'.advPolls # h.advPolls =>
            /\ h.roundPolls = 0 /\ h.roundG = 0 /\ h.roundD = 0
            /\ h'.roundPolls = 1
       /\ h'.advStop =>
            /\ pc' = "done" /\ error' = "none"
            /\ h'.roundG = 0 /\ h'.roundD = 0
            /\ ParamSnap' = h'.snap]_vars

\* a poll said stop after a round that updated both networks and saved a checkpoint
C2_Witness ==
    /\ pc = "done" /\ h.advStop /\ adv_epoch = 1
    /\ h.advG > 0 /\ h.advD > 0 /\ <<"ADV", 0>> \in files

\* C3: a round whose poll did not say stop performs exactly ADV_g_step generator
\* updates and then exactly ADV_d_step discriminator updates: every generator update
\* precedes the round's first discriminator update, and a round starts only after
\* the previous round's last discriminator update.
C3_RoundShape ==
    [][/\ h'.advG # h.advG => h.roundD = 0 /\ h.roundG < cfg.ADV_g_step
       /\ h'.advD # h.advD => h.roundG = cfg.ADV_g_step /\ h.roundD < cfg.ADV_d_step
       /\ pc' = "adv_save" => h'.roundG = cfg.ADV_g_step /\ h'.roundD = cfg.ADV_d_step
       /\ (adv_epoch' # adv_epoch /\ adv_epoch # Unbound) =>
            h.roundG = cfg.ADV_g_step /\ h.roundD = cfg.ADV_d_step]_vars

\* the second round is complete, with two generator updates and one discriminator update
C3_Witness ==
    /\ pc = "adv_save" /\ adv_epoch = 1
    /\ cfg.ADV_g_step = 2 /\ cfg.ADV_d_step = 1
    /\ h.advG = 4 /\ h.advD = 2

\* the positions of one generator step after temperature_grad and eta_grad are set
AfterMask == {"opt_zero", "opt_backward", "opt_callback", "opt_step"}

\* the gradient a flag lets through
Passed(learn, g) == IF learn THEN g ELSE 0

\* C4: the gradient injected for temperature is zero when learn_temperature is
\* off and the estimator's value when it is on, and the same for eta with learn_eta,
\* whatever the estimator returned: each flag acts on its own parameter only.
C4_MaskedInjection ==
    /\ pc \in AfterMask =>
         est.grads = <<Passed(cfg.learn_temperature, est.out[1]), Passed(cfg.learn_eta, est.out[2])>>
    /\ pc = "opt_step" =>
         /\ gradSlot.temperature = Passed(cfg.learn_temperature, est.out[1])
         /\ gradSlot.eta = Passed(cfg.learn_eta, est.out[2])

\* temperature is not learned, eta is: the step injects zero for temperature and the
\* estimator's (non-zero) value for eta
C4_Witness ==
    /\ pc = "opt_step" /\ ~cfg.learn_temperature /\ cfg.learn_eta
    /\ est.out[1] # 0 /\ gradSlot.temperature = 0
    /\ gradSlot.eta = est.out[2] /\ gradSlot.eta # 0

\* the places of an operation in the history of the current step
Places(op) == {i \in 1..Len(h.ops) : h.ops[i] = op}

\* the history is that of a generator step
GenStepOps == Len(h.ops) > 0 /\ h.ops[1] = "sample_theta"

C6_Positive == temperature > 0 /\ eta > 0

\* the positions at which the generator's and the discriminator's optimizers step
GenStepAt == {"mle_train", "opt_step"}
DisStepAt == {"dpre_epoch", "d_step"}

\* the positions of adv_train_generator and of adv_train_discriminator
InGenAdv ==
    {"g_init", "g_loop", "g_sample", "g_estimate", "g_loss", "opt_zero", "opt_backward",
     "opt_callback", "opt_step", "g_test"}
InDisAdv == {"d_init", "d_loop", "d_forward", "d_zero", "d_backward", "d_clip", "d_step", "d_test"}

\* C7: the generator's parameters, temperature and eta change only at a step of
\* a generator optimizer and the discriminator's parameters only at a step of the
\* discriminator optimizer; generator steps leave the discriminator's parameters
\* alone, discriminator steps and discriminator pretraining leave the generator's,
\* temperature and eta alone.
C7_SingleWriter ==
    [][/\ <<genParams, temperature, eta>>' # <<genParams, temperature, eta>> => pc \in GenStepAt
       /\ disParams' # disParams => pc \in DisStepAt
       /\ pc \in InGenAdv => disParams' = disParams
       /\ (pc \in InDisAdv \/ Phase = "PRETRAIN_D") =>
            UNCHANGED <<genParams, temperature, eta>>]_vars

\* discriminator pretraining, generator steps that moved temperature and eta, and a
\* discriminator step have all happened
C7_Witness ==
    /\ h.dpreTrain > 0 /\ h.advG > 0 /\ h.advD > 0
    /\ temperature # cfg.temperature /\ eta # cfg.eta
    /\ gradSlot.temperature # 0

\* a step at which a checkpoint or a pretrained-weights file is due
SaveDue ==
    /\ SaveEnabled
    /\ \/ pc \in {"mle_final", "gen_save", "dis_save"}
       \/ pc = "mle_test" /\ MleLogged
       \/ pc = "adv_save" /\ adv_epoch % cfg.adv_log_step = 0

\* C8 (as claimed): a step that saves or evaluates the metrics leaves the
\* parameters, temperature, eta, the phase and the round counter as they were, and
\* the run goes on as it does without saving: the step does not end it.
C8_SaveFrame ==
    [][(SaveDue \/ h'.metrics # h.metrics) =>
         /\ UNCHANGED <<paramVars, adv_epoch>>
         /\ PhaseOf(pc') = PhaseOf(pc)
         /\ error' = "none"]_vars

\* the sampling, estimation and optimizer steps in the history of the current step
EstimatorOp(o) == o \in {"sample_theta", "estimate_gradient", "step"}
EstimatorOps == SelectSeq(h.ops, EstimatorOp)
PerStep == <<"sample_theta", "estimate_gradient", "step">>

\* C9: every generator step is one sample_theta, then one estimate_gradient, then
\* one optimizer step; estimate_gradient gets the temperature and eta the previous
\* optimizer step produced, and theta of the current generator; g_step such steps
\* are made.
C9_EstimatorPerStep ==
    /\ GenStepOps =>
         /\ Len(EstimatorOps) <= Len(PerStep)
         /\ EstimatorOps = SubSeq(PerStep, 1, Len(EstimatorOps))
    /\ (pc = "g_loop" /\ g_i # Unbound) => EstimatorOps = PerStep /\ h.roundG = g_i + 1
    /\ pc \in {"g_loss"} \cup AfterMask =>
         /\ est.args = <<temperature, eta>>
         /\ est.theta = genParams
    /\ pc = "g_test" => h.roundG = cfg.ADV_g_step

\* the second step of a call, after the first one moved temperature and eta
C9_Witness ==
    /\ pc = "opt_step" /\ g_i = 1
    /\ temperature # old[1] /\ eta # old[2]
    /\ est.args = <<temperature, eta>>

\* the positions of pretrain_generator's loop
MleLoopAt == {"mle_loop", "mle_poll", "mle_train", "mle_test"}

\* C10: generator pretraining polls the stop signal once before each epoch and
\* trains at most epochs epochs; after the first poll that says stop it neither
\* trains nor polls again and has left the loop; without a stop it leaves the loop
\* after exactly epochs training epochs.
C10_PretrainPolling ==
    [][/\ h'.mleTrain # h.mleTrain => h.mlePolls = h.mleTrain + 1 /\ ~h.mleStop
       /\ h'.mlePolls # h.mlePolls => h.mlePolls = h.mleTrain /\ ~h.mleStop
       /\ h'.mleTrain <= cfg.MLE_train_epoch
       /\ h'.mleStop => pc' \notin MleLoopAt
       /\ (pc \in MleLoopAt /\ pc' \notin MleLoopAt /\ ~h'.mleStop) =>
            h'.mleTrain = cfg.MLE_train_epoch /\ h'.mlePolls = cfg.MLE_train_epoch]_vars

\* the poll before the second of two epochs said stop
C10_Witness ==
    /\ pc = "mle_final" /\ h.mleStop
    /\ cfg.MLE_train_epoch = 2 /\ h.mleTrain = 1 /\ h.mlePolls = 2

\* ------------------------------------------------------------ C11
\* pretrain_discriminator has ended: it returned to _run, or it raised
DpreOver ==
    \/ pc \in {"dis_save", "dis_saved"}
    \/ pc \in {"dpre_sample", "dpre_epoch", "dpre_log"} /\ ~Running

\* inside a round of pretrain_discriminator, once its negatives have been drawn
DpreInRound == pc \in {"dpre_epoch", "dpre_log"}

\* C11: discriminator pretraining runs exactly d_step rounds; a round draws fresh
\* negatives and resets the data once, before its training, and then trains exactly
\* d_epoch epochs on the negatives of that round; d_step * d_epoch epochs in total
C11_DpreRounds ==
    /\ DpreInRound =>
          /\ h.dpreResets = dpre_step + 1
          /\ dis_data = [round |-> dpre_step, gen |-> genParams]
          /\ h.roundTrain = (IF pc = "dpre_log" THEN cfg.d_epoch ELSE dpre_epoch + 1)
          /\ h.dpreTrain = dpre_step * cfg.d_epoch + h.roundTrain
    /\ DpreOver =>
          /\ h.dpreResets = cfg.d_step
          /\ h.dpreTrain = cfg.d_step * cfg.d_epoch

\* ------------------------------------------------------------ C12
\* the skip flags _run reads, by the phase whose section each one guards; the third
\* section (the adversarial loop) is guarded by none
SkipFlags == [PRETRAIN_G |-> cfg.gen_pretrain, PRETRAIN_D |-> cfg.dis_pretrain]

\* the files each pretraining phase can write
PhaseFiles(ph) ==
    IF ph = "PRETRAIN_G"
    THEN {f \in files : f[1] \in {"MLE", "pretrained_gen"}}
    ELSE {f \in files : f[1] = "pretrained_dis"}

\* the operations (polls, data resets, training updates) a phase has performed
PhaseOps(ph) ==
    CASE ph = "PRETRAIN_G" -> MleOps
      [] ph = "PRETRAIN_D" -> DpreOps
      [] ph = "ADV" -> AdvOps + h.advPolls + h.metrics

\* C12 as stated: each of the three phases has a skip flag of its own, so a run with
\* every skip flag set performs no operation of any phase
C12_EachPhaseSkippable ==
    (\A ph \in DOMAIN SkipFlags : SkipFlags[ph]) =>
        \A ph \in {"PRETRAIN_G", "PRETRAIN_D", "ADV"} : PhaseOps(ph) = 0

\* C12, amended: each of the two pretraining phases is skipped exactly when its own
\* flag is set, whatever the other flag is; a skipped phase performs no operation
\* and writes no file; the adversarial phase has no flag and is entered by every
\* run that gets past the pretraining sections
C12_PretrainSkippable ==
    /\ [](\A ph \in DOMAIN SkipFlags :
             SkipFlags[ph] => /\ PhaseOps(ph) = 0
                              /\ PhaseFiles(ph) = {}
                              /\ Phase = ph => pc \in {"gen_check", "dis_check"})
    /\ [][/\ Phase' = "TERMINATED" => Phase \in {"ADV", "TERMINATED"}
          /\ Phase' = "ADV" /\ Phase # "ADV" => pc' = "adv_start"
          /\ pc = "gen_check" =>
              pc' = (IF cfg.gen_pretrain THEN "dis_check" ELSE "mle_loop")
          /\ pc = "dis_check" =>
              pc' = (IF cfg.dis_pretrain THEN "adv_start" ELSE "dpre_loop")]_vars

\* the generator's pretraining was skipped and the discriminator's ran, then the
\* adversarial phase
C12_Witness ==
    /\ cfg.gen_pretrain /\ ~cfg.dis_pretrain
    /\ pc = "done"
    /\ MleOps = 0 /\ h.dpreTrain > 0 /\ AdvOps > 0
    /\ PhaseFiles("PRETRAIN_D") # {}

\* ------------------------------------------------------------ C13
\* C13: the adversarial loop always terminates: whatever the budget and the stop
\* signal, the run reaches TERMINATED, after at most ADV_train_epoch rounds (one
\* poll each), and it reaches it in the first round whose poll observes the stop
C13_AdvTerminates ==
    /\ <>(Phase = "TERMINATED")
    /\ [](/\ h.advPolls <= cfg.ADV_train_epoch
          /\ adv_epoch < cfg.ADV_train_epoch \/ adv_epoch = Unbound
          /\ h.advStop => Phase = "TERMINATED")
    /\ [][h.advPolls' # h.advPolls /\ ~sig'.adv_sig => Phase' = "TERMINATED"]_vars

\* the run has ended on a stop observed in its second round, after a full first one
C13_Witness ==
    /\ Phase = "TERMINATED"
    /\ h.advStop /\ h.advPolls = 2
    /\ h.advG > 0 /\ h.advD > 0

\* ------------------------------------------------------------ C14
\* C14: a cfg.loss_type that is not one of the loss families makes the run fail
\* before any training update of any phase
C14_FailFast ==
    cfg.loss_type \notin LossTypes =>
        h.mleTrain = 0 /\ h.dpreTrain = 0 /\ h.advG = 0 /\ h.advD = 0

\* ------------------------------------------------------------ C16
\* the operations of one discriminator update, in the order of the claim
DisUpdateOps == <<"forward", "zero_grad", "backward", "clip", "step">>

\* C16: every discriminator update of the adversarial phase performs zero_grad,
\* backward, the gradient clip and the optimizer step in this order, each once;
\* the optimizer steps on clipped gradients that come from d_loss alone, never on
\* what the generator update's oracle calls accumulated on the discriminator
C16_DisUpdateOrder ==
    /\ [](pc \in {"d_zero", "d_backward", "d_clip", "d_step"} =>
             h.ops = SubSeq(DisUpdateOps, 1, Len(h.ops)))
    /\ [][h.advD' # h.advD =>
             /\ pc = "d_step"
             /\ h.advD' = h.advD + 1
             /\ h.ops' = DisUpdateOps
             /\ disGrad = [src |-> {"d_loss"}, clipped |-> TRUE]
             /\ disParams' # disParams]_vars

\* a discriminator update has completed in a round whose generator updates had
\* called the oracle
C16_Witness ==
    /\ pc = "d_loop"
    /\ h.ops = DisUpdateOps
    /\ h.roundG > 0 /\ h.roundD > 0

\* ------------------------------------------------------------ C17
\* C17: for every budget from zero on, every combination of the flags and every
\* behaviour of the stop signal, no statement of _run raises: no loop variable and
\* no loss is read before it is assigned, nothing is divided by zero
C17_NoRuntimeError == error = "none"

\* ------------------------------------------------------------ C18
\* C18: no checkpoint and no pretrained-weights file is written, in any phase, when
\* cfg.if_save is false or cfg.if_test is true; in the adversarial phase the only
\* file written is the checkpoint of a round that polled the signal and performed
\* its generator and discriminator updates, whose index is a multiple of
\* cfg.adv_log_step: it is written after the discriminator updates, under the
\* index of the round
C18_SaveGuard ==
    /\ [](~(cfg.if_save /\ ~cfg.if_test) => files = {})
    /\ [][\A f \in files' \ files :
             /\ files' = files \cup {f}
             /\ (f[1] = "ADV") = (Phase = "ADV")
             /\ f[1] = "ADV" =>
                   /\ pc = "adv_save"
                   /\ f[2] = adv_epoch
                   /\ adv_epoch % cfg.adv_log_step = 0
                   /\ h.roundPolls = 1 /\ sig.adv_sig
                   /\ h.roundG = cfg.ADV_g_step /\ h.roundD = cfg.ADV_d_step]_vars

\* two rounds ran with their updates under adv_log_step = 2: the first round's
\* checkpoint is the only one
C18_Witness ==
    /\ Phase = "TERMINATED"
    /\ cfg.adv_log_step = 2 /\ adv_epoch = 1
    /\ h.advG = 2 /\ h.advD = 2
    /\ {f \in files : f[1] = "ADV"} = {<<"ADV", 0>>}
    /\ <<"pretrained_gen", 0>> \in files /\ <<"pretrained_dis", 0>> \in files

\* ------------------------------------------------------------ C19
\* a call of sample has returned
Returned == gsample.pc = "returned"

\* C19: sample(num_samples, batch_size) with one_hot False returns exactly
\* num_samples sequences of length max_seq_len, for every num_samples >= 0 and
\* batch_size >= 1; the rows generated are at least num_samples, so every returned
\* position holds a token written by a generation step; within a batch the token
\* fed to the next step is the start letter at first and then the token the
\* previous step sampled
C19_SampleShape ==
    /\ gsample.pc \in {"b_loop", "i_loop", "slice", "returned"} =>
          /\ gsample.num_batch * gsample.batch_size >= gsample.num_samples
          /\ Len(gsample.samples) = gsample.num_batch * gsample.batch_size
    /\ gsample.pc = "i_loop" =>
          gsample.inp = [k \in 1..gsample.batch_size |->
                           IF gsample.i = Unbound THEN start_letter
                           ELSE gsample.samples[gsample.b * gsample.batch_size + k]
                                               [gsample.i + 1]]
    /\ Returned =>
          /\ Len(gsample.result) = gsample.num_samples
          /\ \A r \in 1..Len(gsample.result) :
                /\ Len(gsample.result[r]) = max_seq_len
                /\ \A c \in 1..max_seq_len :
                      <<r, c>> \in gsample.written /\ gsample.result[r][c] \in Tokens

\* a call has returned three sequences generated in two batches of two, tokens of
\* both values among them
C19_Witness ==
    /\ Returned
    /\ gsample.num_samples = 3 /\ gsample.batch_size = 2 /\ gsample.num_batch = 2
    /\ Len(gsample.result) = 3
    /\ gsample.result[3] = <<1, 0>>

\* ------------------------------------------------------------ C15
\* C15: for every theta and every noise, the arg-max of the conditional relaxation
\* z_tilde of a draw is the draw's hard sample; z_tilde is built from the hard
\* sample and its own noise, whatever the arg-max of the unconditional z is
C15_Coupling ==
    relaxed.pc = "drawn" =>
        /\ ArgMax(relaxed.z_tilde) = relaxed.hard
        /\ \A i \in Categories \ {relaxed.hard} :
              relaxed.z_tilde[i] < relaxed.z_tilde[relaxed.hard]

\* a draw whose hard sample is the last category, not one of the likeliest, under
\* noise that differs between the categories
C15_Witness ==
    /\ relaxed.pc = "drawn"
    /\ relaxed.hard = 3
    /\ relaxed.theta[3] < relaxed.theta[1]
    /\ relaxed.v[1] < relaxed.v[3]

=============================================================================
